---- MODULE Spec2Model ----
(***************************************************************************)
(* A model of praess.py: Road (a directed link whose travel time depends   *)
(* on the number of vehicles on it), Network (a networkx MultiDiGraph of   *)
(* cities and roads) and the greedy router fastest_path / egoist_path.     *)
(*                                                                         *)
(* Times are carried as integers in hundredths of a time unit, so that the *)
(* flow function N/100 of the Braess scenario is exact: 45 is 4500, and    *)
(* 4000/100 is 4000.                                                       *)
(***************************************************************************)
EXTENDS Integers, Sequences, FiniteSets, TLC

VARIABLES
    roads,   \* the Road objects: road id -> the object's fields
    G,       \* Network.G, the MultiDiGraph: [node, succ]
    ret,     \* outcome of the last call: the exception raised or the value returned
    script   \* position of the module-level script (lines 123-142)

vars == <<roads, G, ret, script>>

\* ------------------------------------------------------------------ bounds

\* Vehicles one road holds at most in the model.
MaxVehicles == 3
\* Vehicles all roads together hold at most, in Spec and SpecRoute.
MaxLoad == 2
\* Largest n handed to pop_vehicle.
MaxPop == 3
\* Longest list handed to a bulk operation.
MaxList == 2
\* The interpreter's limit on nested calls, scaled down.
RecursionLimit == 5

\* ------------------------------------------------------------------ values

\* Python's None.
None == "None"

Range(s) == {s[k] : k \in DOMAIN s}

\* The flow functions handed to Road(...): lambda N: N, lambda N: N/100,
\* lambda N: c. The result is in hundredths.
Linear == [kind |-> "N", c |-> 0]
Per100 == [kind |-> "N/100", c |-> 0]
Const(c) == [kind |-> "const", c |-> c]

Call(time_func, N) ==
    CASE time_func.kind = "N" -> 100 * N
      [] time_func.kind = "N/100" -> N
      [] time_func.kind = "const" -> 100 * time_func.c

\* ------------------------------------------------------------------ Road

\* Road.__init__
RoadInit(src, dest, time_func, name) ==
    LET flow_time == Call(time_func, 0) IN
    [G |-> None, name |-> name, src |-> src, dest |-> dest,
     time_func |-> time_func, vehicles |-> <<>>,
     flow_time |-> flow_time, free_flow_time |-> flow_time]

\* recalc that also overwrites free_flow_time.
recalc_free_flow(road) ==
    [road EXCEPT !.flow_time = Call(road.time_func, Len(road.vehicles)),
                 !.free_flow_time = Call(road.time_func, Len(road.vehicles))]

\* Road.recalc
recalc(road) ==
    [road EXCEPT !.flow_time = Call(road.time_func, Len(road.vehicles))]

\* Road.number_of_vehicles
number_of_vehicles(road) == Len(road.vehicles)

\* The marker add_vehicle appends is the constant 0. The model writes it as
\* the vehicle's arrival number on the road (counted from the last time the
\* road was empty), so that which position a pop removes can be observed.
Marker(vehicles) ==
    IF vehicles = <<>> THEN 1 ELSE vehicles[Len(vehicles)] + 1

\* list.append
ListAppend(list, x) == Append(list, x)

\* list.pop(): the list without its last element.
ListPopLast(list) == SubSeq(list, 1, Len(list) - 1)

\* list.pop(0): the list without its first element
ListPop0(list) == Tail(list)

\* add_vehicle without the recalc of line 29.
add_vehicle_stale(road) ==
    [road EXCEPT !.vehicles = ListAppend(@, Marker(@))]

\* Road.add_vehicle (n is not read)
add_vehicle(road) ==
    recalc([road EXCEPT !.vehicles = ListAppend(@, Marker(@))])

\* The loop of pop_vehicle, lines 37-38: n times vehicles.pop(0); pop(0) of
\* an empty list raises IndexError and leaves the loop where it is.
RECURSIVE PopLoop(_, _)
PopLoop(vehicles, n) ==
    IF n <= 0 THEN [vehicles |-> vehicles, status |-> "ok"]
    ELSE IF vehicles = <<>> THEN [vehicles |-> vehicles, status |-> "IndexError"]
    ELSE PopLoop(ListPop0(vehicles), n - 1)

\* Road.pop_vehicle: [road |-> the object after the call, status |-> "ok" or
\* the exception]. An exception leaves before recalc (line 39) runs.
pop_vehicle(road, n) ==
    LET popped == IF n = 1
                  THEN IF road.vehicles = <<>>
                       THEN [vehicles |-> road.vehicles, status |-> "IndexError"]
                       ELSE [vehicles |-> ListPop0(road.vehicles), status |-> "ok"]
                  ELSE PopLoop(road.vehicles, n)
        after == [road EXCEPT !.vehicles = popped.vehicles]
    IN  IF popped.status = "ok"
        THEN [road |-> recalc(after), status |-> "ok"]
        ELSE [road |-> after, status |-> popped.status]

\* ------------------------------------------------------------------ MultiDiGraph

(***************************************************************************)
(* Network.G is a networkx MultiDiGraph. node is the sequence of cities in *)
(* insertion order; succ[u] is the adjacency of u as networkx keeps it: a  *)
(* sequence (a dict in insertion order) of groups, one per successor v,    *)
(* each holding the parallel edges u->v in insertion order. An edge's key  *)
(* is its position in the group less one: add_edge gives a new edge the    *)
(* key len(group) and remove_edge pops the last one, so the keys of a      *)
(* group are always 0..len-1 in order. An edge's data is the dict handed   *)
(* to add_edge: the Road, and free_flow_time when add_roads_from set it.   *)
(***************************************************************************)
EmptyGraph == [node |-> <<>>, succ |-> <<>>]

HasNode(g, n) == n \in DOMAIN g.succ

\* The position of v's group in an adjacency, 0 when v is no successor.
GroupIndex(adj, v) ==
    IF \E k \in DOMAIN adj : adj[k].nbr = v
    THEN CHOOSE k \in DOMAIN adj : adj[k].nbr = v
    ELSE 0

HasEdge(g, u, v) == HasNode(g, u) /\ GroupIndex(g.succ[u], v) # 0

\* add_node that enters the city anew: a city already there loses the
\* roads leaving it.
add_node_anew(g, n) ==
    [node |-> IF HasNode(g, n) THEN g.node ELSE Append(g.node, n),
     succ |-> [m \in DOMAIN g.succ \cup {n} |->
                  IF m = n THEN <<>> ELSE g.succ[m]]]

\* MultiDiGraph.add_node: a city already there is left as it is.
add_node(g, n) ==
    IF HasNode(g, n) THEN g
    ELSE [node |-> Append(g.node, n),
          succ |-> [m \in DOMAIN g.succ \cup {n} |->
                       IF m = n THEN <<>> ELSE g.succ[m]]]

\* MultiDiGraph.add_nodes_from
RECURSIVE add_nodes_from(_, _)
add_nodes_from(g, cities) ==
    IF cities = <<>> THEN g
    ELSE add_nodes_from(add_node(g, Head(cities)), Tail(cities))

\* remove_node that drops the city and its adjacency and leaves the edges
\* into it where they are.
remove_node_keeps_edges(g, n) ==
    IF ~HasNode(g, n) THEN [G |-> g, status |-> "NetworkXError"]
    ELSE LET NotN(m) == m # n
         IN  [G |-> [node |-> SelectSeq(g.node, NotN),
                     succ |-> [m \in DOMAIN g.succ \ {n} |-> g.succ[m]]],
              status |-> "ok"]

\* MultiDiGraph.remove_node: the city, its outgoing edges and the edges
\* into it. NetworkXError when the city is not in the graph.
remove_node(g, n) ==
    IF ~HasNode(g, n) THEN [G |-> g, status |-> "NetworkXError"]
    ELSE LET NotN(m) == m # n
             NotToN(grp) == grp.nbr # n
         IN  [G |-> [node |-> SelectSeq(g.node, NotN),
                     succ |-> [m \in DOMAIN g.succ \ {n} |->
                                  SelectSeq(g.succ[m], NotToN)]],
              status |-> "ok"]

\* remove_nodes_from that removes nothing when a listed city is not in
\* the graph.
remove_nodes_from_all_or_none(g, cities) ==
    IF \E k \in DOMAIN cities : ~HasNode(g, cities[k]) THEN g
    ELSE LET Kept(m) == m \notin Range(cities)
             KeptGroup(grp) == grp.nbr \notin Range(cities)
         IN  [node |-> SelectSeq(g.node, Kept),
              succ |-> [m \in DOMAIN g.succ \ Range(cities) |->
                           SelectSeq(g.succ[m], KeptGroup)]]

\* remove_nodes_from that drops the cities and their adjacencies and
\* leaves the edges into them where they are.
remove_nodes_from_keeps_edges(g, cities) ==
    LET Kept(m) == m \notin Range(cities)
    IN  [node |-> SelectSeq(g.node, Kept),
         succ |-> [m \in DOMAIN g.succ \ Range(cities) |-> g.succ[m]]]

\* MultiDiGraph.remove_nodes_from: a city not in the graph is passed over.
RECURSIVE remove_nodes_from(_, _)
remove_nodes_from(g, cities) ==
    IF cities = <<>> THEN g
    ELSE remove_nodes_from(remove_node(g, Head(cities)).G, Tail(cities))

\* add_edge that keeps one edge for a pair of cities: a new edge takes
\* the place of the one that was there.
add_edge_merges(g, u, v, data) ==
    LET g2 == add_node(add_node(g, u), v)
        adj == g2.succ[u]
        k == GroupIndex(adj, v)
        adj2 == IF k = 0
                THEN Append(adj, [nbr |-> v, edges |-> <<data>>])
                ELSE [adj EXCEPT ![k].edges = <<data>>]
    IN  [g2 EXCEPT !.succ[u] = adj2]

\* MultiDiGraph.add_edge(u, v, **data): u and v are added when missing; the
\* edge goes last in the group of v, a new group goes last in succ[u].
add_edge(g, u, v, data) ==
    LET g2 == add_node(add_node(g, u), v)
        adj == g2.succ[u]
        k == GroupIndex(adj, v)
        adj2 == IF k = 0
                THEN Append(adj, [nbr |-> v, edges |-> <<data>>])
                ELSE [adj EXCEPT ![k].edges = Append(@, data)]
    IN  [g2 EXCEPT !.succ[u] = adj2]

\* MultiDiGraph.add_edges_from
RECURSIVE add_edges_from(_, _)
add_edges_from(g, edges) ==
    IF edges = <<>> THEN g
    ELSE LET e == Head(edges) IN
         add_edges_from(add_edge(g, e[1], e[2], e[3]), Tail(edges))

\* A sequence without its element at position k.
RemoveAt(s, k) == SubSeq(s, 1, k - 1) \o SubSeq(s, k + 1, Len(s))

\* remove_edge that takes the edge added first between u and v.
remove_edge_first(g, u, v) ==
    IF ~HasEdge(g, u, v) THEN [G |-> g, status |-> "NetworkXError"]
    ELSE LET adj == g.succ[u]
             k == GroupIndex(adj, v)
             left == Tail(adj[k].edges)
             adj2 == IF left = <<>> THEN RemoveAt(adj, k)
                     ELSE [adj EXCEPT ![k].edges = left]
         IN  [G |-> [g EXCEPT !.succ[u] = adj2], status |-> "ok"]

\* MultiDiGraph.remove_edge(u, v): the last edge added between u and v
\* (dict.popitem), and the group with it when it was the only one.
\* NetworkXError when there is no edge from u to v.
remove_edge(g, u, v) ==
    IF ~HasEdge(g, u, v) THEN [G |-> g, status |-> "NetworkXError"]
    ELSE LET adj == g.succ[u]
             k == GroupIndex(adj, v)
             left == SubSeq(adj[k].edges, 1, Len(adj[k].edges) - 1)
             adj2 == IF left = <<>> THEN RemoveAt(adj, k)
                     ELSE [adj EXCEPT ![k].edges = left]
         IN  [G |-> [g EXCEPT !.succ[u] = adj2], status |-> "ok"]

\* MultiDiGraph.remove_edges_from: a pair with no edge is passed over.
RECURSIVE remove_edges_from(_, _)
remove_edges_from(g, pairs) ==
    IF pairs = <<>> THEN g
    ELSE LET e == Head(pairs) IN
         remove_edges_from(remove_edge(g, e[1], e[2]).G, Tail(pairs))

\* ------------------------------------------------------------------ router

\* The outcome of a call: the value it returns, or the exception it raises.
\* call names the method; a method that returns nothing returns no steps
\* and a total of 0 here.
Return(call, visited, total_time) ==
    [call |-> call, status |-> "ok", visited |-> visited, total_time |-> total_time]

Raise(call, exception) ==
    [call |-> call, status |-> exception, visited |-> <<>>, total_time |-> 0]

\* The roads the two loops of lines 103-104 visit, in the order they visit
\* them: group after group, and edge after edge within a group.
RECURSIVE Candidates(_)
Candidates(neighbors) ==
    IF neighbors = <<>> THEN <<>>
    ELSE LET succ == Head(neighbors) IN
         [k \in 1..Len(succ.edges) |->
             [key |-> succ.nbr, road |-> succ.edges[k].road]]
         \o Candidates(Tail(neighbors))

\* Line 102: nothing chosen yet; best_time float('inf') is the empty tuple,
\* a time t the tuple <<t>>.
NoBest == [best |-> None, best_key |-> None, best_time |-> <<>>]

\* time >= best_time: the scan keeps the slowest road.
BetterSlowest(time, best_time) == best_time = <<>> \/ time >= best_time[1]

\* time < best_time: of equal roads the scan keeps the first.
BetterStrict(time, best_time) == best_time = <<>> \/ time < best_time[1]

\* Line 107: time <= best_time
Better(time, best_time) == best_time = <<>> \/ time <= best_time[1]

\* A scan that takes the road and the time of the best candidate and
\* keeps the neighbour of the first.
RECURSIVE ScanKeepsKey(_, _, _)
ScanKeepsKey(cands, attr, b) ==
    IF cands = <<>> THEN b
    ELSE LET road == Head(cands).road
             time == roads[road][attr]
         IN  ScanKeepsKey(Tail(cands), attr,
                  IF Better(time, b.best_time)
                  THEN [best |-> road,
                        best_key |-> IF b.best_key = None
                                     THEN Head(cands).key ELSE b.best_key,
                        best_time |-> <<time>>]
                  ELSE b)

\* Lines 103-108: the scan of the roads leaving a city.
RECURSIVE Scan(_, _, _)
Scan(cands, attr, b) ==
    IF cands = <<>> THEN b
    ELSE LET road == Head(cands).road
             time == roads[road][attr]
         IN  Scan(Tail(cands), attr,
                  IF Better(time, b.best_time)
                  THEN [best |-> road, best_key |-> Head(cands).key,
                        best_time |-> <<time>>]
                  ELSE b)

\* len(neighbors) is 1: the walk stops one road early and walks on from a
\* city without roads.
OneNeighbor(neighbors) == Len(neighbors) = 1

\* Line 99: the city has no road leaving it.
NoNeighbors(neighbors) == Len(neighbors) = 0

\* Network.fastest_path. depth counts the nested calls: the interpreter
\* raises RecursionError at RecursionLimit of them. G[source] raises
\* KeyError for a source that is not in the graph.
RECURSIVE fastest_path(_, _, _, _, _)
fastest_path(source, attr, visited, total_time, depth) ==
    IF depth >= RecursionLimit THEN Raise("egoist_path", "RecursionError")
    ELSE IF ~HasNode(G, source) THEN Raise("egoist_path", "KeyError")
    ELSE LET neighbors == G.succ[source] IN
         IF NoNeighbors(neighbors)
         THEN Return("egoist_path", visited, total_time)
         ELSE LET b == Scan(Candidates(neighbors), attr, NoBest) IN
              fastest_path(b.best_key, attr,
                           Append(visited, <<source, b.best_key>>),
                           IF b.best_time = <<>> THEN total_time
                           ELSE total_time + b.best_time[1],
                           depth + 1)

\* Network.egoist_path
egoist_path(src) == fastest_path(src, "flow_time", <<>>, 0, 0)

\* ------------------------------------------------------------------ Network

\* Network.add_city
add_city(n) == add_node(G, n)

\* Network.add_cities_from
add_cities_from(cities) == add_nodes_from(G, cities)

\* Network.remove_city
remove_city(n) == remove_node(G, n)

\* Network.remove_cities_from
remove_cities_from(cities) == remove_nodes_from(G, cities)

\* An edge attribute that is not set is the empty tuple, the value v is <<v>>.
NoAttr == <<>>

\* Network.add_road: the graph after G.add_edge(road.src, road.dest, road=road)
add_road(rds, r) ==
    add_edge(G, rds[r].src, rds[r].dest,
             [road |-> r, free_flow_time |-> NoAttr])

\* The edge tuples in the reverse of the order of the list.
EdgeTuplesReversed(rds, rs) ==
    [k \in 1..Len(rs) |->
        LET r == rs[Len(rs) + 1 - k] IN
        <<rds[r].src, rds[r].dest,
          [road |-> r, free_flow_time |-> <<rds[r].free_flow_time>>]>>]

\* Network.add_roads_from, lines 74-76: the edge tuples
EdgeTuples(rds, rs) ==
    [k \in 1..Len(rs) |->
        <<rds[rs[k]].src, rds[rs[k]].dest,
          [road |-> rs[k], free_flow_time |-> <<rds[rs[k]].free_flow_time>>]>>]

\* Network.add_roads_from: the graph after G.add_edges_from(edges)
add_roads_from(rds, rs) == add_edges_from(G, EdgeTuples(rds, rs))

\* road.G = self, for each road of rs (lines 69, 77)
SetOwner(rds, rs) ==
    [r \in DOMAIN rds |->
        IF r \in Range(rs) THEN [rds[r] EXCEPT !.G = "G"] ELSE rds[r]]

\* Network.remove_road
remove_road(n1, n2) == remove_edge(G, n1, n2)

\* Network.remove_roads_from
remove_roads_from(pairs) == remove_edges_from(G, pairs)

\* ------------------------------------------------------------------ the calls

\* The cities and the Road(...) objects the calls are made with.
Cities == {"Start", "A", "End"}

Towns == {"Start", "A"}

RoadIds == {"r1", "r2", "r3", "r4"}

ParallelIds == {"r1", "r2"}

Catalogue ==
    [r \in RoadIds |->
        CASE r = "r1" -> RoadInit("Start", "A", Linear, "t=N")
          [] r = "r2" -> RoadInit("Start", "A", Const(1), "t=1")
          [] r = "r3" -> RoadInit("A", "End", Const(1), "t=1")
          [] r = "r4" -> RoadInit("A", "Start", Linear, "t=N")]

\* The lists of at most MaxList elements of S.
ListsOf(S) == UNION {[1..k -> S] : k \in 0..MaxList}

\* The roads that are edges of the graph.
RoadsIn(g) ==
    UNION {UNION {{e.road : e \in Range(grp.edges)} : grp \in Range(g.succ[u])} :
           u \in DOMAIN g.succ}

\* The number of vehicles on the roads of S.
RECURSIVE SumLen(_, _)
SumLen(rds, S) ==
    IF S = {} THEN 0
    ELSE LET r == CHOOSE x \in S : TRUE IN
         Len(rds[r].vehicles) + SumLen(rds, S \ {r})

Load == SumLen(roads, DOMAIN roads)

\* No line of the module-level script is being run: the calls come from a caller.
Interactive == script.line = 0

\* Two parallel roads Start->A, and Network() (line 49).
Init ==
    /\ roads = [r \in ParallelIds |-> Catalogue[r]]
    /\ G = EmptyGraph
    /\ ret = Return("__init__", <<>>, 0)
    /\ script = [line |-> 0, i |-> 0]

AddCity(n) ==
    /\ Interactive
    /\ G' = add_city(n)
    /\ ret' = Return("add_city", <<>>, 0)
    /\ UNCHANGED <<roads, script>>

AddCitiesFrom(cities) ==
    /\ Interactive
    /\ G' = add_cities_from(cities)
    /\ ret' = Return("add_cities_from", <<>>, 0)
    /\ UNCHANGED <<roads, script>>

RemoveCity(n) ==
    /\ Interactive
    /\ LET out == remove_city(n) IN
       /\ G' = out.G
       /\ ret' = IF out.status = "ok" THEN Return("remove_city", <<>>, 0)
                 ELSE Raise("remove_city", out.status)
    /\ UNCHANGED <<roads, script>>

RemoveCitiesFrom(cities) ==
    /\ Interactive
    /\ G' = remove_cities_from(cities)
    /\ ret' = Return("remove_cities_from", <<>>, 0)
    /\ UNCHANGED <<roads, script>>

\* A Road is handed to the network while it is not an edge of it.
AddRoad(r) ==
    /\ Interactive
    /\ r \notin RoadsIn(G)
    /\ roads' = SetOwner(roads, <<r>>)
    /\ G' = add_road(roads, r)
    /\ ret' = Return("add_road", <<>>, 0)
    /\ UNCHANGED script

AddRoadsFrom(rs) ==
    /\ Interactive
    /\ \A k \in DOMAIN rs : rs[k] \notin RoadsIn(G)
    /\ \A k, l \in DOMAIN rs : rs[k] = rs[l] => k = l
    /\ roads' = SetOwner(roads, rs)
    /\ G' = add_roads_from(roads, rs)
    /\ ret' = Return("add_roads_from", <<>>, 0)
    /\ UNCHANGED script

RemoveRoad(n1, n2) ==
    /\ Interactive
    /\ LET out == remove_road(n1, n2) IN
       /\ G' = out.G
       /\ ret' = IF out.status = "ok" THEN Return("remove_road", <<>>, 0)
                 ELSE Raise("remove_road", out.status)
    /\ UNCHANGED <<roads, script>>

RemoveRoadsFrom(pairs) ==
    /\ Interactive
    /\ G' = remove_roads_from(pairs)
    /\ ret' = Return("remove_roads_from", <<>>, 0)
    /\ UNCHANGED <<roads, script>>

\* add_vehicle on roads that share one list of vehicles: the vehicle
\* arrives on every road.
AddVehicleShared(r) ==
    /\ Interactive
    /\ Len(roads[r].vehicles) < MaxVehicles
    /\ Marker(roads[r].vehicles) <= MaxVehicles
    /\ roads' = [q \in DOMAIN roads |->
                    [roads[q] EXCEPT !.vehicles = (add_vehicle(roads[r])).vehicles]]
    /\ ret' = Return("add_vehicle", <<>>, 0)
    /\ UNCHANGED <<G, script>>

\* The model stops adding at MaxVehicles vehicles, and at the arrival
\* number MaxVehicles.
AddVehicle(r) ==
    /\ Interactive
    /\ Len(roads[r].vehicles) < MaxVehicles
    /\ Marker(roads[r].vehicles) <= MaxVehicles
    /\ roads' = [roads EXCEPT ![r] = add_vehicle(@)]
    /\ ret' = Return("add_vehicle", <<>>, 0)
    /\ UNCHANGED <<G, script>>

PopVehicle(r, n) ==
    /\ Interactive
    /\ LET out == pop_vehicle(roads[r], n) IN
       /\ roads' = [roads EXCEPT ![r] = out.road]
       /\ ret' = IF out.status = "ok" THEN Return("pop_vehicle", <<>>, 0)
                 ELSE Raise("pop_vehicle", out.status)
    /\ UNCHANGED <<G, script>>

\* A query whose lookup G[source] enters the source into the graph.
EgoistPathEntersSource(src) ==
    /\ Interactive
    /\ ret' = egoist_path(src)
    /\ G' = add_city(src)
    /\ UNCHANGED <<roads, script>>

EgoistPath(src) ==
    /\ Interactive
    /\ ret' = egoist_path(src)
    /\ UNCHANGED <<roads, G, script>>

\* The pairs handed to remove_roads_from: one that roads of the catalogue
\* join, and its reverse, which none joins.
TownPairs == {<<"Start", "A">>, <<"A", "Start">>}

\* Every method, called with two cities and two parallel roads.
Next ==
    \/ \E n \in Towns : AddCity(n)
    \/ \E cities \in ListsOf(Towns) : AddCitiesFrom(cities)
    \/ \E n \in Towns : RemoveCity(n)
    \/ \E cities \in ListsOf(Towns) : RemoveCitiesFrom(cities)
    \/ \E r \in DOMAIN roads : AddRoad(r)
    \/ \E rs \in ListsOf(DOMAIN roads) : AddRoadsFrom(rs)
    \/ \E n1, n2 \in Towns : RemoveRoad(n1, n2)
    \/ \E pairs \in ListsOf(TownPairs) : RemoveRoadsFrom(pairs)
    \/ \E r \in DOMAIN roads : Load < MaxLoad /\ AddVehicle(r)
    \/ \E r \in DOMAIN roads, n \in 1..MaxPop : PopVehicle(r, n)
    \/ \E src \in Towns : EgoistPath(src)

Spec == Init /\ [][Next]_vars

\* The Road methods, on two parallel roads that are added to the network
\* and removed from it, each holding up to MaxVehicles vehicles.
NextRoad ==
    \/ \E r \in DOMAIN roads : AddRoad(r)
    \/ \E n1, n2 \in Towns : RemoveRoad(n1, n2)
    \/ \E r \in DOMAIN roads : AddVehicle(r)
    \/ \E r \in DOMAIN roads, n \in 1..MaxPop : PopVehicle(r, n)

SpecRoad == Init /\ [][NextRoad]_vars

\* Routes: three cities and the four roads of the catalogue, with parallel
\* roads, a fork at A and the cycle Start->A->Start.
InitRoute ==
    /\ roads = Catalogue
    /\ G = EmptyGraph
    /\ ret = Return("__init__", <<>>, 0)
    /\ script = [line |-> 0, i |-> 0]

NextRoute ==
    \/ \E r \in DOMAIN roads : AddRoad(r)
    \/ \E n \in Cities : RemoveCity(n)
    \/ \E n1, n2 \in Cities : RemoveRoad(n1, n2)
    \/ \E r \in DOMAIN roads : Load < MaxLoad /\ AddVehicle(r)
    \/ \E src \in Cities : EgoistPath(src)

SpecRoute == InitRoute /\ [][NextRoute]_vars

\* Roads handed over one at a time and in lists: the four roads of the
\* catalogue, with vehicles on them.
NextBulk ==
    \/ \E r \in DOMAIN roads : AddRoad(r)
    \/ \E rs \in ListsOf(DOMAIN roads) : AddRoadsFrom(rs)
    \/ \E r \in DOMAIN roads : Load < MaxLoad /\ AddVehicle(r)

SpecBulk == InitRoute /\ [][NextBulk]_vars

\* The eight methods that change the graph, called with three cities and
\* the two parallel roads.
NextNet ==
    \/ \E n \in Cities : AddCity(n)
    \/ \E cities \in ListsOf(Cities) : AddCitiesFrom(cities)
    \/ \E n \in Cities : RemoveCity(n)
    \/ \E cities \in ListsOf(Cities) : RemoveCitiesFrom(cities)
    \/ \E r \in DOMAIN roads : AddRoad(r)
    \/ \E rs \in ListsOf(DOMAIN roads) : AddRoadsFrom(rs)
    \/ \E n1, n2 \in Cities : RemoveRoad(n1, n2)
    \/ \E pairs \in ListsOf(TownPairs) : RemoveRoadsFrom(pairs)

SpecNet == Init /\ [][NextNet]_vars

\* ------------------------------------------------------------------ the script

\* Lines 123-142, the Braess network. script.line is the line to run next,
\* script.i the rounds of the loop of line 135 that are done.
SeedRounds == 4000

LastLine == 143

CityAt(line) ==
    CASE line = 124 -> "Start"
      [] line = 125 -> "End"
      [] line = 126 -> "A"
      [] line = 127 -> "B"

RoadIdAt(line) ==
    CASE line = 128 -> "b1"
      [] line = 129 -> "b2"
      [] line = 130 -> "b3"
      [] line = 131 -> "b4"
      [] line = 132 -> "b5"

RoadAt(line) ==
    CASE line = 128 -> RoadInit("Start", "A", Per100, "t=N/100")
      [] line = 129 -> RoadInit("Start", "B", Const(45), "t=45")
      [] line = 130 -> RoadInit("A", "B", Const(0), "t=0")
      [] line = 131 -> RoadInit("A", "End", Const(45), "t=45")
      [] line = 132 -> RoadInit("B", "End", Per100, "t=N/100")

\* Line 123: G = Network(); no Road is made yet.
InitBraess ==
    /\ roads = <<>>
    /\ G = EmptyGraph
    /\ ret = Return("__init__", <<>>, 0)
    /\ script = [line |-> 124, i |-> 0]

\* Lines 124-127
ScriptAddCity ==
    /\ script.line \in 124..127
    /\ G' = add_city(CityAt(script.line))
    /\ ret' = Return("add_city", <<>>, 0)
    /\ script' = [script EXCEPT !.line = @ + 1]
    /\ UNCHANGED roads

\* Lines 128-132: G.add_road(Road(...))
ScriptAddRoad ==
    /\ script.line \in 128..132
    /\ LET r == RoadIdAt(script.line)
           made == [x \in DOMAIN roads \cup {r} |->
                       IF x = r THEN RoadAt(script.line) ELSE roads[x]]
       IN  /\ roads' = SetOwner(made, <<r>>)
           /\ G' = add_road(made, r)
    /\ ret' = Return("add_road", <<>>, 0)
    /\ script' = [script EXCEPT !.line = @ + 1]

\* Line 133: G.draw() reads the graph.
ScriptDraw ==
    /\ script.line = 133
    /\ script' = [script EXCEPT !.line = 135]
    /\ UNCHANGED <<roads, G, ret>>

\* The roads lines 136-138 visit: city after city, and for a city its
\* edges in the order of its adjacency.
RECURSIVE EdgeRoads(_, _)
EdgeRoads(g, cities) ==
    IF cities = <<>> THEN <<>>
    ELSE LET cands == Candidates(g.succ[Head(cities)]) IN
         [k \in 1..Len(cands) |-> cands[k].road] \o EdgeRoads(g, Tail(cities))

\* add_vehicle on each road of rs in turn.
RECURSIVE AddVehicles(_, _)
AddVehicles(rds, rs) ==
    IF rs = <<>> THEN rds
    ELSE AddVehicles([rds EXCEPT ![Head(rs)] = add_vehicle(@)], Tail(rs))

\* Lines 135-139: one round of the loop, or its end after SeedRounds rounds.
ScriptSeed ==
    /\ script.line = 135
    /\ \/ /\ script.i < SeedRounds
          /\ roads' = AddVehicles(roads, EdgeRoads(G, G.node))
          /\ ret' = Return("add_vehicle", <<>>, 0)
          /\ script' = [script EXCEPT !.i = @ + 1]
       \/ /\ script.i = SeedRounds
          /\ script' = [script EXCEPT !.line = 142]
          /\ UNCHANGED <<roads, ret>>
    /\ UNCHANGED G

\* Line 142: G.egoist_path('Start')
ScriptEgoist ==
    /\ script.line = 142
    /\ ret' = egoist_path("Start")
    /\ script' = [script EXCEPT !.line = LastLine]
    /\ UNCHANGED <<roads, G>>

NextBraess ==
    \/ ScriptAddCity
    \/ ScriptAddRoad
    \/ ScriptDraw
    \/ ScriptSeed
    \/ ScriptEgoist

SpecBraess == InitBraess /\ [][NextBraess]_vars

\* ------------------------------------------------------------------ the state

\* The shape of the state: the fields of Road (lines 9-16) and of the
\* MultiDiGraph (line 49). Every city of the graph has an adjacency, no
\* group of parallel edges is empty, and an edge joins the cities of its Road.
TypeOK ==
    /\ \A r \in DOMAIN roads :
          /\ roads[r].G \in {None, "G"}
          /\ roads[r].vehicles \in Seq(Nat)
          /\ roads[r].flow_time \in Nat
          /\ roads[r].free_flow_time \in Nat
    /\ Range(G.node) = DOMAIN G.succ
    /\ \A k, l \in DOMAIN G.node : G.node[k] = G.node[l] => k = l
    /\ \A u \in DOMAIN G.succ : \A k \in DOMAIN G.succ[u] :
          /\ G.succ[u][k].edges # <<>>
          /\ HasNode(G, G.succ[u][k].nbr)
          /\ \A l \in DOMAIN G.succ[u] : G.succ[u][l].nbr = G.succ[u][k].nbr => l = k
          /\ \A e \in Range(G.succ[u][k].edges) :
                /\ e.road \in DOMAIN roads
                /\ roads[e.road].src = u
                /\ roads[e.road].dest = G.succ[u][k].nbr
                /\ roads[e.road].G = "G"
    /\ ret.status \in {"ok", "IndexError", "NetworkXError", "KeyError", "RecursionError"}

\* ------------------------------------------------------------------ claims

\* The flow function applied to the number of vehicles now on the road.
CostNow(road) == Call(road.time_func, Len(road.vehicles))

\* C1: after any sequence of add_vehicle and pop_vehicle calls, failing
\* calls included, every road's flow_time is its flow function applied to
\* the number of vehicles on it.
C1_CostConsistent ==
    \A r \in DOMAIN roads : roads[r].flow_time = CostNow(roads[r])

\* C2: pop_vehicle(n) on a road holding fewer than n vehicles ends in an
\* error and leaves the road's vehicles and flow_time as they were.
C2_UnderflowLeavesRoad ==
    [][\A r \in DOMAIN roads, n \in 1..MaxPop :
          (ret'.call = "pop_vehicle" /\ PopVehicle(r, n)
              /\ Len(roads[r].vehicles) < n)
          => /\ ret'.status = "IndexError"
             /\ roads'[r].vehicles = roads[r].vehicles
             /\ roads'[r].flow_time = roads[r].flow_time]_vars

\* The roads leaving city u, and those of them that lead to v.
OutRoads(u) ==
    IF HasNode(G, u)
    THEN UNION {{e.road : e \in Range(grp.edges)} : grp \in Range(G.succ[u])}
    ELSE {}

RoadsTo(u, v) == {r \in OutRoads(u) : roads[r].dest = v}

\* The least flow_time among the roads leaving u (u has one).
MinCost(u) ==
    CHOOSE m \in {roads[r].flow_time : r \in OutRoads(u)} :
        \A r \in OutRoads(u) : m <= roads[r].flow_time

RECURSIVE SumMinCost(_)
SumMinCost(visited) ==
    IF visited = <<>> THEN 0
    ELSE MinCost(Head(visited)[1]) + SumMinCost(Tail(visited))

\* The last call was a routing query that returned.
Routed == ret.call = "egoist_path" /\ ret.status = "ok"

\* C3: the road taken at each step of egoist_path costs no more than any
\* road leaving that city, and the total is the sum of those least costs.
C3_TakesMinimum ==
    Routed =>
        /\ \A k \in DOMAIN ret.visited :
              \E r \in RoadsTo(ret.visited[k][1], ret.visited[k][2]) :
                  \A q \in OutRoads(ret.visited[k][1]) :
                      roads[r].flow_time <= roads[q].flow_time
        /\ ret.total_time = SumMinCost(ret.visited)

\* C3 witness: a query from Start returned after choosing between the
\* parallel roads r1 (two vehicles, 2.00) and r2 (1.00).
C3_Witness ==
    /\ Routed
    /\ ret.visited # <<>>
    /\ ret.visited[1] = <<"Start", "A">>
    /\ {"r1", "r2"} \subseteq OutRoads("Start")
    /\ roads["r1"].flow_time = 200
    /\ ret.total_time >= 100

\* The position of the last road of least flow_time among those leaving u,
\* in the order the scan visits them.
LastMinimal(u) ==
    LET cands == Candidates(G.succ[u]) IN
    CHOOSE j \in DOMAIN cands :
        /\ roads[cands[j].road].flow_time = MinCost(u)
        /\ \A l \in DOMAIN cands :
              l > j => roads[cands[l].road].flow_time # MinCost(u)

\* C4: when several roads leaving a city share the least flow_time, the
\* next hop is the destination of the one the scan visits last.
C4_TieTakesLast ==
    Routed =>
        \A k \in DOMAIN ret.visited :
            LET u == ret.visited[k][1] IN
            ret.visited[k][2] = Candidates(G.succ[u])[LastMinimal(u)].key

\* C4 witness: a query returned after a step from A, where r3 (to End) and
\* r4 (to Start) tie at 1.00.
C4_Witness ==
    /\ Routed
    /\ \E k \in DOMAIN ret.visited : ret.visited[k][1] = "A"
    /\ {"r3", "r4"} \subseteq OutRoads("A")
    /\ roads["r3"].flow_time = roads["r4"].flow_time

\* C5: the script's query on the Braess network, 4000 vehicles on every
\* road, returns Start->A->B->End and the total 80.
C5_BraessRoute ==
    script.line = LastLine =>
        ret = Return("egoist_path",
                     <<<<"Start", "A">>, <<"A", "B">>, <<"B", "End">>>>, 8000)

\* C5 witness: the script has run to its end with 4000 vehicles on each of
\* the five roads.
C5_Witness ==
    /\ script.line = LastLine
    /\ DOMAIN roads = {"b1", "b2", "b3", "b4", "b5"}
    /\ \A r \in DOMAIN roads : Len(roads[r].vehicles) = 4000

\* The cities a road leads to from u.
Nbrs(u) == {roads[r].dest : r \in OutRoads(u)}

\* The cities reached from the cities of S by at most k roads.
RECURSIVE Reach(_, _)
Reach(S, k) ==
    IF k = 0 THEN S ELSE Reach(S \cup UNION {Nbrs(u) : u \in S}, k - 1)

ReachFrom(src) == Reach({src}, Cardinality(Cities))

\* No city reachable from src lies on a cycle.
AcyclicFrom(src) ==
    \A u \in ReachFrom(src) : u \notin Reach(Nbrs(u), Cardinality(Cities))

\* The city a returned walk from src ends at.
EndOf(src, visited) ==
    IF visited = <<>> THEN src ELSE visited[Len(visited)][2]

\* C6: a query from a city from which no cycle can be reached returns, and
\* its walk ends at a city with no road leaving it; on Start->A->End it
\* returns the steps (Start,A), (A,End).
C6_AcyclicTerminates ==
    [][\A src \in Cities :
          (ret'.call = "egoist_path" /\ EgoistPath(src)
              /\ HasNode(G, src) /\ AcyclicFrom(src))
          => /\ ret'.status = "ok"
             /\ OutRoads(EndOf(src, ret'.visited)) = {}
             /\ (src = "Start" /\ Nbrs("Start") = {"A"} /\ Nbrs("A") = {"End"})
                => ret'.visited = <<<<"Start", "A">>, <<"A", "End">>>>]_vars

\* C6 witness: on Start->A->End the query from Start returned two steps.
C6_Witness ==
    /\ Routed
    /\ Nbrs("Start") = {"A"} /\ Nbrs("A") = {"End"} /\ Nbrs("End") = {}
    /\ ret.visited = <<<<"Start", "A">>, <<"A", "End">>>>

\* C7: a query whose walk does not come to a city without roads within the
\* bound on its steps ends in a RoutingDivergence error.
C7_DivergenceReported ==
    (ret.call = "egoist_path" /\ ret.status \notin {"ok", "KeyError"})
        => ret.status = "RoutingDivergence"

\* C8: a routing query leaves the graph and every road as they were.
C8_QueryReadsOnly ==
    [][ret'.call = "egoist_path" => (G' = G /\ roads' = roads)]_vars

\* C8 witness: a query returned a walk over roads that carry vehicles.
C8_Witness ==
    /\ Routed
    /\ Len(ret.visited) = 2
    /\ Load > 0

\* C9: pop_vehicle(n) on a road holding at least n vehicles removes the n
\* that arrived first and leaves the others in their order of arrival.
C9_FifoDeparture ==
    [][\A r \in DOMAIN roads, n \in 1..MaxPop :
          (ret'.call = "pop_vehicle" /\ PopVehicle(r, n)
              /\ n <= Len(roads[r].vehicles))
          => /\ ret'.status = "ok"
             /\ roads'[r].vehicles =
                    SubSeq(roads[r].vehicles, n + 1, Len(roads[r].vehicles))]_vars

\* C9 witness: of three vehicles that arrived as 1, 2, 3, a pop has left 2, 3.
C9_Witness ==
    /\ ret = Return("pop_vehicle", <<>>, 0)
    /\ \E r \in DOMAIN roads : roads[r].vehicles = <<2, 3>>

\* C10: a road's free_flow_time is its flow function at 0 vehicles, as set
\* at construction, in every state the calls reach.
C10_FreeFlowFixed ==
    \A r \in DOMAIN roads :
        /\ roads[r].free_flow_time = Call(roads[r].time_func, 0)
        /\ roads[r].free_flow_time = Catalogue[r].free_flow_time

\* C10 witness: a road of the network carries vehicles and its flow_time
\* has moved away from its free_flow_time.
C10_Witness ==
    \E r \in RoadsIn(G) :
        /\ Len(roads[r].vehicles) = MaxLoad
        /\ roads[r].flow_time # roads[r].free_flow_time

\* The roads of the graph that start or end at city n.
Incident(g, n) == {r \in RoadsIn(g) : roads[r].src = n \/ roads[r].dest = n}

\* C11 as stated: remove_city(n) removes the city alone, and every road
\* that starts or ends at n is still an edge of the graph after the call.
C11_IncidentRoadsStay ==
    [][\A n \in Cities :
          (ret'.call = "remove_city" /\ RemoveCity(n) /\ HasNode(G, n))
          => Incident(G, n) \subseteq RoadsIn(G')]_vars

\* C11 amended: remove_city(n) of a city of the graph removes the city
\* and with it exactly the roads that start or end at n; the other
\* cities keep their order and the other roads stay.
C11_IncidentRoadsGo ==
    [][\A n \in Cities :
          (ret'.call = "remove_city" /\ RemoveCity(n) /\ HasNode(G, n))
          => /\ ret'.status = "ok"
             /\ RoadsIn(G') = RoadsIn(G) \ Incident(G, n)
             /\ Range(G'.node) = Range(G.node) \ {n}
             /\ roads' = roads]_vars

\* C11 witness: remove_city returned, r1 (Start->A) was handed to the
\* network and is no edge of it, one of its cities is gone, and another
\* road is still an edge.
C11_Witness ==
    /\ ret = Return("remove_city", <<>>, 0)
    /\ roads["r1"].G = "G"
    /\ "r1" \notin RoadsIn(G)
    /\ ~(HasNode(G, "Start") /\ HasNode(G, "A"))
    /\ RoadsIn(G) # {}

\* The number of edges from u to v.
EdgeCount(g, u, v) ==
    IF HasEdge(g, u, v)
    THEN Len(g.succ[u][GroupIndex(g.succ[u], v)].edges)
    ELSE 0

\* How often the pair (u, v) is listed in pairs.
Listed(pairs, u, v) == Cardinality({k \in DOMAIN pairs : pairs[k] = <<u, v>>})

Minus(a, b) == IF a > b THEN a - b ELSE 0

\* C12 as stated: each of the four removals, asked for a city or a road
\* that is not in the graph (for the list forms: a list with one such
\* item), raises and leaves the graph as it was.
C12_AbsentRaises ==
    [][/\ \A n \in Cities :
            (ret'.call = "remove_city" /\ RemoveCity(n) /\ ~HasNode(G, n))
            => (ret'.status # "ok" /\ G' = G)
       /\ \A n1, n2 \in Cities :
            (ret'.call = "remove_road" /\ RemoveRoad(n1, n2)
                /\ ~HasEdge(G, n1, n2))
            => (ret'.status # "ok" /\ G' = G)
       /\ ret'.call = "remove_cities_from" =>
            \A cities \in ListsOf(Cities) :
               (RemoveCitiesFrom(cities)
                   /\ \E k \in DOMAIN cities : ~HasNode(G, cities[k]))
               => (ret'.status # "ok" /\ G' = G)
       /\ ret'.call = "remove_roads_from" =>
            \A pairs \in ListsOf(TownPairs) :
               (RemoveRoadsFrom(pairs)
                   /\ \E k \in DOMAIN pairs :
                         ~HasEdge(G, pairs[k][1], pairs[k][2]))
               => (ret'.status # "ok" /\ G' = G)]_vars

\* C12 amended: remove_city and remove_road, asked for a city or a road
\* that is not in the graph, raise NetworkXError and leave the graph as it
\* was. remove_cities_from and remove_roads_from never raise: they pass
\* over the listed items that are not in the graph and remove the others,
\* the cities with the roads at them, and of a pair as many roads as the
\* list names it, as far as there are any.
C12_AbsentRaisesOrIsPassedOver ==
    [][/\ \A n \in Cities :
            (ret'.call = "remove_city" /\ RemoveCity(n) /\ ~HasNode(G, n))
            => (ret'.status = "NetworkXError" /\ G' = G)
       /\ \A n1, n2 \in Cities :
            (ret'.call = "remove_road" /\ RemoveRoad(n1, n2)
                /\ ~HasEdge(G, n1, n2))
            => (ret'.status = "NetworkXError" /\ G' = G)
       /\ ret'.call = "remove_cities_from" =>
            \A cities \in ListsOf(Cities) :
               RemoveCitiesFrom(cities)
               => /\ ret'.status = "ok"
                  /\ Range(G'.node) = Range(G.node) \ Range(cities)
                  /\ RoadsIn(G') = RoadsIn(G) \
                         UNION {Incident(G, n) : n \in Range(cities)}
       /\ ret'.call = "remove_roads_from" =>
            \A pairs \in ListsOf(TownPairs) :
               RemoveRoadsFrom(pairs)
               => /\ ret'.status = "ok"
                  /\ G'.node = G.node
                  /\ \A u, v \in Towns :
                       EdgeCount(G', u, v) =
                           Minus(EdgeCount(G, u, v), Listed(pairs, u, v))]_vars

\* C12 witness: remove_road was asked for a pair of cities that no road
\* joins, in a graph that has roads, and raised.
C12_Witness ==
    /\ ret = Raise("remove_road", "NetworkXError")
    /\ RoadsIn(G) # {}

\* The roads from u to v, in the order G[u][v] holds them.
GroupRoads(g, u, v) ==
    IF HasEdge(g, u, v)
    THEN LET edges == g.succ[u][GroupIndex(g.succ[u], v)].edges
         IN  [k \in DOMAIN edges |-> edges[k].road]
    ELSE <<>>

\* The roads G[u] lists, for a city u of the graph.
Outgoing(g, u) ==
    LET cands == Candidates(g.succ[u])
    IN  [k \in DOMAIN cands |-> cands[k].road]

\* C13: add_road never merges. A road added between two cities that
\* k roads join already leaves k + 1 distinct roads between them, the new
\* one last, and G[src] lists every one of them.
C13_ParallelRoadsKept ==
    [][\A r \in DOMAIN roads :
          (ret'.call = "add_road" /\ AddRoad(r))
          => LET u == roads[r].src
                 v == roads[r].dest
             IN  /\ GroupRoads(G', u, v) = Append(GroupRoads(G, u, v), r)
                 /\ EdgeCount(G', u, v) = EdgeCount(G, u, v) + 1
                 /\ Cardinality(Range(GroupRoads(G', u, v)))
                        = EdgeCount(G', u, v)
                 /\ Range(GroupRoads(G', u, v))
                        \subseteq Range(Outgoing(G', u))]_vars

\* C13 witness: add_road returned and two roads join Start and A.
C13_Witness ==
    /\ ret = Return("add_road", <<>>, 0)
    /\ EdgeCount(G, "Start", "A") = 2
    /\ Len(Outgoing(G, "Start")) = 2

\* C14: remove_road(n1, n2), with k >= 1 roads from n1 to n2, removes
\* exactly one of them, the one added last, so the same one after the same
\* calls; the other k - 1 stay in their order, and so do the cities and
\* the roads of every other pair.
C14_RemovesOneRoad ==
    [][\A n1, n2 \in Cities :
          (ret'.call = "remove_road" /\ RemoveRoad(n1, n2)
              /\ HasEdge(G, n1, n2))
          => LET old == GroupRoads(G, n1, n2) IN
             /\ ret'.status = "ok"
             /\ GroupRoads(G', n1, n2) = SubSeq(old, 1, Len(old) - 1)
             /\ RoadsIn(G') = RoadsIn(G) \ {old[Len(old)]}
             /\ G'.node = G.node
             /\ \A u, v \in Cities :
                   <<u, v>> # <<n1, n2>>
                   => GroupRoads(G', u, v) = GroupRoads(G, u, v)
             /\ roads' = roads]_vars

\* C14 witness: remove_road returned; of the two roads from Start to A,
\* added r1 first, r1 is left; the road from A to End is in the graph and
\* the road from A to Start never was.
C14_Witness ==
    /\ ret = Return("remove_road", <<>>, 0)
    /\ roads["r1"].G = "G" /\ roads["r2"].G = "G"
    /\ roads["r4"].G = None
    /\ GroupRoads(G, "Start", "A") = <<"r1">>
    /\ GroupRoads(G, "A", "End") = <<"r3">>

\* C15: add_city of a city of the graph, and add_cities_from of cities of
\* the graph, leave the cities and every road as they were; cities that
\* add_cities_from does add change nothing about those already there.
C15_AddCityIdempotent ==
    [][/\ \A n \in Cities :
            (ret'.call = "add_city" /\ AddCity(n) /\ HasNode(G, n))
            => (ret'.status = "ok" /\ G' = G /\ roads' = roads)
       /\ ret'.call = "add_cities_from" =>
            \A cities \in ListsOf(Cities) :
               AddCitiesFrom(cities)
               => /\ ret'.status = "ok"
                  /\ roads' = roads
                  /\ \A m \in DOMAIN G.succ : G'.succ[m] = G.succ[m]
                  /\ SubSeq(G'.node, 1, Len(G.node)) = G.node
                  /\ Range(cities) \subseteq Range(G.node) => G' = G]_vars

\* C15 witness: add_city returned in a graph with roads; they join Start
\* and A, so the city named was one of the graph, with a road at it.
C15_Witness ==
    /\ ret = Return("add_city", <<>>, 0)
    /\ EdgeCount(G, "Start", "A") = 2
    /\ G.node = <<"Start", "A">>

\* C16: after any calls of add_city, add_cities_from, remove_city,
\* remove_cities_from, add_road, add_roads_from, remove_road and
\* remove_roads_from, every road of the graph starts and ends at a city
\* of the graph.
C16_RoadsJoinCities ==
    /\ \A r \in RoadsIn(G) :
          roads[r].src \in Range(G.node) /\ roads[r].dest \in Range(G.node)
    /\ \A u \in DOMAIN G.succ :
          \A k \in DOMAIN G.succ[u] : G.succ[u][k].nbr \in Range(G.node)

\* C16 witness: remove_cities_from returned; both roads from Start to A
\* were handed to the network, A is gone and no road is left.
C16_Witness ==
    /\ ret = Return("remove_cities_from", <<>>, 0)
    /\ roads["r1"].G = "G" /\ roads["r2"].G = "G"
    /\ G.node = <<"Start">>
    /\ RoadsIn(G) = {}

\* The flow_time of the roads of a sequence, added up (line 111).
RECURSIVE SumFlow(_)
SumFlow(rs) ==
    IF rs = <<>> THEN 0
    ELSE roads[Head(rs)].flow_time + SumFlow(Tail(rs))

\* C17: what egoist_path(src) returns is a walk. It has no step and the
\* total 0 when no road leaves src; otherwise its first step starts at
\* src. Each step ends where the next one starts, each step (u, v) has a
\* road from u to v in the graph, and the total is the sum of the
\* flow_time of one such road per step.
C17_ResultIsWalk ==
    [][\A src \in Cities :
          (ret'.call = "egoist_path" /\ EgoistPath(src) /\ ret'.status = "ok")
          => LET w == ret'.visited IN
             /\ OutRoads(src) = {} => (w = <<>> /\ ret'.total_time = 0)
             /\ OutRoads(src) # {} => (w # <<>> /\ w[1][1] = src)
             /\ \A k \in 1..(Len(w) - 1) : w[k][2] = w[k + 1][1]
             /\ \A k \in DOMAIN w : RoadsTo(w[k][1], w[k][2]) # {}
             /\ \E chosen \in [DOMAIN w -> RoadsIn(G)] :
                   /\ \A k \in DOMAIN w :
                         chosen[k] \in RoadsTo(w[k][1], w[k][2])
                   /\ ret'.total_time = SumFlow(chosen)]_vars

\* C17 witness: a query returned the walk Start, A, End in a graph with
\* both roads from Start to A and a road back from A to Start, and its
\* total is above that of the empty roads.
C17_Witness ==
    /\ Routed
    /\ ret.visited = <<<<"Start", "A">>, <<"A", "End">>>>
    /\ EdgeCount(G, "Start", "A") = 2
    /\ EdgeCount(G, "A", "Start") = 1
    /\ ret.total_time > 100

\* add_road called for each road of rs in turn, from the graph g and the
\* roads rds: the graph and the roads after the last call (lines 69-70).
RECURSIVE add_road_each(_, _, _)
add_road_each(g, rds, rs) ==
    IF rs = <<>> THEN [G |-> g, roads |-> rds]
    ELSE LET r == Head(rs) IN
         add_road_each(add_edge(g, rds[r].src, rds[r].dest,
                                [road |-> r, free_flow_time |-> NoAttr]),
                       SetOwner(rds, <<r>>), Tail(rs))

\* Lines 103-108 over the roads rds.
RECURSIVE ScanOn(_, _, _, _)
ScanOn(rds, cands, attr, b) ==
    IF cands = <<>> THEN b
    ELSE LET road == Head(cands).road
             time == rds[road][attr]
         IN  ScanOn(rds, Tail(cands), attr,
                    IF Better(time, b.best_time)
                    THEN [best |-> road, best_key |-> Head(cands).key,
                          best_time |-> <<time>>]
                    ELSE b)

\* Network.fastest_path in the graph g with the roads rds.
RECURSIVE fastest_path_on(_, _, _, _, _, _, _)
fastest_path_on(g, rds, source, attr, visited, total_time, depth) ==
    IF depth >= RecursionLimit THEN Raise("egoist_path", "RecursionError")
    ELSE IF ~HasNode(g, source) THEN Raise("egoist_path", "KeyError")
    ELSE LET neighbors == g.succ[source] IN
         IF NoNeighbors(neighbors)
         THEN Return("egoist_path", visited, total_time)
         ELSE LET b == ScanOn(rds, Candidates(neighbors), attr, NoBest) IN
              fastest_path_on(g, rds, b.best_key, attr,
                              Append(visited, <<source, b.best_key>>),
                              IF b.best_time = <<>> THEN total_time
                              ELSE total_time + b.best_time[1],
                              depth + 1)

\* Network.egoist_path in the graph g with the roads rds.
egoist_path_on(g, rds, src) == fastest_path_on(g, rds, src, "flow_time", <<>>, 0, 0)

\* C18: add_roads_from(rs) leaves what add_road for each road of rs, in
\* the order of the list, leaves: the same cities in the same order, for
\* every pair of cities the same roads in the same order, for every city
\* the same roads leaving it in the same order, the same owner on every
\* road, and the same answer of egoist_path from every city
\* (egoist_path_on answers as egoist_path does).
C18_BulkIsEach ==
    [][ret'.call = "add_roads_from" =>
       \A rs \in ListsOf(RoadIds) :
          AddRoadsFrom(rs)
          => \A each \in {add_road_each(G, roads, rs)} :
             /\ G'.node = each.G.node
             /\ \A u, v \in Cities :
                   GroupRoads(G', u, v) = GroupRoads(each.G, u, v)
             /\ \A u \in Range(G'.node) :
                   Outgoing(G', u) = Outgoing(each.G, u)
             /\ roads' = each.roads
             /\ \A src \in Cities :
                   /\ egoist_path_on(G', roads', src)
                         = egoist_path_on(each.G, each.roads, src)
                   /\ egoist_path_on(G, roads, src) = egoist_path(src)]_vars

\* C18 witness: add_roads_from returned; r2 and r1 were handed over in
\* one list, in this order, and r1 holds a vehicle.
C18_Witness ==
    /\ ret = Return("add_roads_from", <<>>, 0)
    /\ GroupRoads(G, "Start", "A") = <<"r2", "r1">>
    /\ \A k \in 1..2 :
          G.succ["Start"][GroupIndex(G.succ["Start"], "A")].edges[k].free_flow_time
              # NoAttr
    /\ G.node = <<"Start", "A">>
    /\ Len(roads["r1"].vehicles) = 1

\* C19: add_vehicle and pop_vehicle on one road, a failing pop included,
\* leave the vehicles, flow_time and free_flow_time of every other road
\* as they were, also those of a road between the same two cities.
C19_RoadsIndependent ==
    [][/\ \A r \in DOMAIN roads :
            (ret'.call = "add_vehicle" /\ AddVehicle(r))
            => \A q \in DOMAIN roads \ {r} :
                  /\ roads'[q].vehicles = roads[q].vehicles
                  /\ roads'[q].flow_time = roads[q].flow_time
                  /\ roads'[q].free_flow_time = roads[q].free_flow_time
       /\ \A r \in DOMAIN roads, n \in 1..MaxPop :
            (ret'.call = "pop_vehicle" /\ PopVehicle(r, n))
            => \A q \in DOMAIN roads \ {r} :
                  /\ roads'[q].vehicles = roads[q].vehicles
                  /\ roads'[q].flow_time = roads[q].flow_time
                  /\ roads'[q].free_flow_time = roads[q].free_flow_time]_vars

\* C19 witness: add_vehicle returned; r1 and r2 both join Start and A in
\* the graph, r1 holds two vehicles at flow_time 2 and r2 holds none.
C19_Witness ==
    /\ ret = Return("add_vehicle", <<>>, 0)
    /\ GroupRoads(G, "Start", "A") = <<"r1", "r2">>
    /\ Len(roads["r1"].vehicles) = 2 /\ roads["r1"].flow_time = 200
    /\ roads["r2"].vehicles = <<>>

====
